---- MODULE Spec2Model ----
(***************************************************************************)
(* Model of nodejs/pdf-downloader/pdf_downloader.js: a batch run that      *)
(* reads URLs from a CSV file, loads each in one reused browser page,      *)
(* tries to dismiss a cookie banner, classifies the page as sign-in gated  *)
(* or prints it to a PDF, and writes the URLs that were not printed to a   *)
(* spreadsheet.                                                            *)
(*                                                                         *)
(* Strings are TLA+ strings; a character is a string of length 1.          *)
(* A page is a flat sequence of elements (its DOM in document order).      *)
(***************************************************************************)
EXTENDS Integers, Sequences, FiniteSets, TLC

\* ------------------------------------------------------------------ bounds

\* Largest number of data rows of the CSV file.
MaxUrls == 2

\* Largest 0-based input position the file-name function is applied to.
MaxIndex == 11

\* ------------------------------------------------------- program constants

\* substring(0, 100) of the sanitised URL.
MaxNameLen == 100

\* ------------------------------------------------------------------ strings

Upper == "ABCDEFGHIJKLMNOPQRSTUVWXYZ"

LowerAlpha == "abcdefghijklmnopqrstuvwxyz"

DigitChars == "0123456789"

Min(a, b) == IF a < b THEN a ELSE b

CharAt(s, k) == SubSeq(s, k, k)

\* The set of the characters of s.
CharsOf(s) == { CharAt(s, k) : k \in 1..Len(s) }

\* String.prototype.includes.  The singleton sets bind each string once.
Includes(s, t) ==
    \E hay \in {s}, needle \in {t} :
        \E k \in 0..(Len(hay) - Len(needle)) :
            SubSeq(hay, k + 1, k + Len(needle)) = needle

\* The lower-case letter of every upper-case letter.
LowerOf ==
    [c \in CharsOf(Upper) |->
        CharAt(LowerAlpha, CHOOSE k \in 1..Len(Upper) : CharAt(Upper, k) = c)]

ToLowerChar(c) == IF c \in DOMAIN LowerOf THEN LowerOf[c] ELSE c

\* The characters lo..hi of s in lower case, by halves of the range.
RECURSIVE LowerFrom(_, _, _)
LowerFrom(s, lo, hi) ==
    IF lo > hi THEN ""
    ELSE IF lo = hi THEN ToLowerChar(CharAt(s, lo))
    ELSE LowerFrom(s, lo, (lo + hi) \div 2)
            \o LowerFrom(s, ((lo + hi) \div 2) + 1, hi)

\* String.prototype.toLowerCase
ToLowerCase(s) == LowerFrom(s, 1, Len(s))

\* The character class [a-zA-Z0-9].
Alnum == CharsOf(Upper) \cup CharsOf(LowerAlpha) \cup CharsOf(DigitChars)

IsAlnum(c) == c \in Alnum

\* The characters lo..hi of s, each one outside the class replaced by "_",
\* by halves of the range.
RECURSIVE ReplaceFrom(_, _, _)
ReplaceFrom(s, lo, hi) ==
    IF lo > hi THEN ""
    ELSE IF lo = hi THEN (IF IsAlnum(CharAt(s, lo)) THEN CharAt(s, lo) ELSE "_")
    ELSE ReplaceFrom(s, lo, (lo + hi) \div 2)
            \o ReplaceFrom(s, ((lo + hi) \div 2) + 1, hi)

\* url.replace(/[^a-zA-Z0-9]/g, '_')
ReplaceNonAlnum(s) == ReplaceFrom(s, 1, Len(s))

\* s.substring(0, n)
Substring0(s, n) == SubSeq(s, 1, Min(Len(s), n))

\* The decimal numeral a template literal gives a non-negative integer.
RECURSIVE Decimal(_)
Decimal(n) ==
    IF n < 10 THEN CharAt(DigitChars, n + 1)
    ELSE Decimal(n \div 10) \o CharAt(DigitChars, (n % 10) + 1)

\* --------------------------------------------------------------------- page

Elem(tag, id, cls, aria, testid, text) ==
    [tag |-> tag, id |-> id, cls |-> cls, aria |-> aria, testid |-> testid,
     text |-> text]

Attr(name, value) ==
    IF value = "" THEN "" ELSE " " \o name \o "=\"" \o value \o "\""

\* One element as page.content() serialises it.
OuterHtml(el) ==
    "<" \o el.tag \o Attr("id", el.id) \o Attr("class", el.cls)
        \o Attr("aria-label", el.aria) \o Attr("data-testid", el.testid)
        \o ">" \o el.text \o "</" \o el.tag \o ">"

RECURSIVE HtmlFrom(_, _)
HtmlFrom(dom, k) ==
    IF k > Len(dom) THEN "" ELSE OuterHtml(dom[k]) \o HtmlFrom(dom, k + 1)

\* page.content(): the markup of the whole document.
PageContent(dom) ==
    "<html><head></head><body>" \o HtmlFrom(dom, 1) \o "</body></html>"

RECURSIVE TextFrom(_, _)
TextFrom(dom, k) ==
    IF k > Len(dom) THEN ""
    ELSE dom[k].text \o (IF k < Len(dom) THEN "\n" ELSE "") \o TextFrom(dom, k + 1)

\* document.body.innerText: the texts of the elements, one per line.
InnerText(dom) == TextFrom(dom, 1)

\* page.evaluate(() => document.body.innerText.toLowerCase())
PageText(dom) == ToLowerCase(InnerText(dom))

\* ----------------------------------------------------- sign-in classification

signInIndicators ==
    << "sign in", "login", "log in", "subscribe", "subscription", "register",
       "account required", "please log in", "member access", "sign up",
       "create account", "premium content" >>

\* signInIndicators.some(indicator =>
\*     pageText.includes(indicator.toLowerCase()) && pageContent.includes('form'))
requiresSignIn(pageText, pageContent) ==
    \E indicator \in { signInIndicators[k] : k \in 1..Len(signInIndicators) } :
        /\ Includes(pageText, ToLowerCase(indicator))
        /\ Includes(pageContent, "form")

\* ------------------------------------------------------------ cookie consent

GenericSelector == "button, a, span, div"

Tags(src, tags) == [kind |-> "tags", src |-> src, tags |-> tags, val |-> ""]

ById(v) == [kind |-> "id", src |-> "#" \o v, tags |-> {}, val |-> v]

ByClass(v) == [kind |-> "class", src |-> "." \o v, tags |-> {}, val |-> v]

ByAria(v) ==
    [kind |-> "aria", src |-> "[aria-label=\"" \o v \o "\"]", tags |-> {},
     val |-> v]

ByTestId(v) ==
    [kind |-> "testid", src |-> "[data-testid=\"" \o v \o "\"]", tags |-> {},
     val |-> v]

\* 'button:has-text("...")' is no selector document.querySelector accepts.
HasText(v) ==
    [kind |-> "hastext", src |-> "button:has-text(\"" \o v \o "\")",
     tags |-> {}, val |-> v]

cookieSelectors ==
    << Tags(GenericSelector, {"button", "a", "span", "div"}),
       ById("onetrust-accept-btn-handler"),
       ById("accept-cookies"),
       ById("cookie-accept"),
       ById("cookie-consent-accept"),
       ById("accept-all-cookies"),
       ById("CybotCookiebotDialogBodyLevelButtonLevelOptinAllowAll"),
       ById("gdpr-cookie-accept"),
       ByClass("accept-cookies"),
       ByClass("cookie-accept"),
       ByClass("cookie-consent-accept"),
       ByClass("accept-all-cookies"),
       ByClass("cookie-button--accept"),
       ByAria("Accept cookies"),
       ByAria("accept cookies"),
       ByTestId("cookie-accept"),
       HasText("Accept"),
       HasText("Accept All"),
       HasText("Accept Cookies"),
       HasText("Allow All"),
       HasText("Allow Cookies"),
       HasText("Got it"),
       HasText("I Accept"),
       HasText("OK"),
       HasText("Close") >>

\* The texts the text fallback looks for.
consentTexts ==
    << "accept", "accept all", "accept cookies", "allow all", "allow cookies",
       "got it", "i accept", "ok", "close" >>

\* Whether element el matches a (valid) selector.
Matches(el, selector) ==
    CASE selector.kind = "tags"   -> el.tag \in selector.tags
      [] selector.kind = "id"     -> el.id = selector.val
      [] selector.kind = "class"  -> el.cls = selector.val
      [] selector.kind = "aria"   -> el.aria = selector.val
      [] selector.kind = "testid" -> el.testid = selector.val
      [] OTHER                    -> FALSE

\* The least position of a set of positions, 0 when the set is empty.
FirstOf(positions) ==
    IF positions = {} THEN 0
    ELSE CHOOSE k \in positions : \A j \in positions : k <= j

\* page.$(selector): the first matching element (0 for null); an invalid
\* selector makes the query throw.
QueryThrows(selector) == selector.kind = "hastext"

QuerySelector(dom, selector) ==
    FirstOf({ k \in 1..Len(dom) : Matches(dom[k], selector) })

\* Whether the lower-cased textContent of el includes one of the consent texts.
HasConsentText(el) ==
    \E t \in { consentTexts[k] : k \in 1..Len(consentTexts) } :
        Includes(ToLowerCase(el.text), t)

\* A variant of the text scan that looks at every element of the document.
FindByTextAnyTag(dom) ==
    FirstOf({ k \in 1..Len(dom) : HasConsentText(dom[k]) })

\* The callback of page.evaluateHandle: the first button, a, span or div whose
\* text includes one of the consent texts (0 for undefined).
FindByText(dom) ==
    FirstOf({ k \in 1..Len(dom) :
                /\ dom[k].tag \in {"button", "a", "span", "div"}
                /\ HasConsentText(dom[k]) })

\* The value of `button` when the `if (button)` test is reached for a selector
\* whose query did not throw: present is the truthiness of `button`, elem the
\* element it refers to (0 when it refers to none).  page.evaluateHandle
\* resolves to a handle object, which is truthy, also for undefined; only a
\* handle of an element has a click method.
ButtonFor(dom, selector) ==
    LET found == QuerySelector(dom, selector) IN
    IF found = 0 /\ selector.src \in {GenericSelector}
    THEN [present |-> TRUE, elem |-> FindByText(dom)]
    ELSE [present |-> found # 0, elem |-> found]

\* -------------------------------------------------------------- environment

Plain(tag, text) == Elem(tag, "", "", "", "", text)

\* What each site serves: the document the page holds once page.goto resolved.
Site(url) ==
    CASE url = "https://plain.example/a" ->
            << Plain("p", "Hello world") >>
      [] url = "https://ok.example" ->
            << Plain("div", "Hello world") >>
      [] url = "https://gated.example" ->
            << Plain("p", "Please log in to continue"), Plain("form", "") >>
      [] url = "https://news.example/?p=1" ->
            << Plain("a", "Login"), Plain("p", "More information") >>
      [] url = "https://shop.example" ->
            << Plain("div", "We use cookies"),
               Elem("button", "onetrust-accept-btn-handler", "", "", "",
                    "Accept"),
               Plain("p", "Welcome") >>
      [] url = "https://docs.example/ok" ->
            << Plain("p", "Press OK to close"),
               Elem("input", "accept-cookies", "", "", "", "") >>
      [] OTHER -> <<>>

SiteUrls ==
    { "https://plain.example/a", "https://ok.example", "https://gated.example",
      "https://news.example/?p=1", "https://shop.example",
      "https://docs.example/ok" }

\* The URL column of a CSV row; "" is a row without a URL.
RowValues == SiteUrls \cup {""}

RowLists == UNION { [1..n -> RowValues] : n \in 0..MaxUrls }

\* The messages of the errors the awaited calls reject with.
NavErrors ==
    { "Navigation timeout of 45000 ms exceeded", "net::ERR_NAME_NOT_RESOLVED" }

WaitError == "Execution context was destroyed"

ContentError == "Cannot read properties of null (reading 'innerText')"

RenderError == "Printing failed"

WriteError == "ENOENT: no such file or directory"

\* -------------------------------------------------------------------- state

VARIABLES
    pc,          \* position of the async main function
    csv,         \* the CSV file: [state, rows]
    browser,     \* "none", "open" or "closed"
    exitCode,    \* -1 while the process runs, then its exit status
    urls,        \* the URLs read from the CSV file
    i,           \* loop index, 0-based
    dom,         \* the document the reused page holds
    sel,         \* 1-based position in cookieSelectors, 0 outside the loop
    clicks,      \* successful button.click() calls of this iteration
    signInData,  \* the records pushed so far
    recPos,      \* history: the input position of each record of signInData
    pdfs,        \* files written by page.pdf: [pos, name, done]
    disk,        \* the sheet last written to 00_requires_signin.xlsx, <<>> if none
    flushes      \* number of XLSX.writeFile calls that returned

vars ==
    << pc, csv, browser, exitCode, urls, i, dom, sel, clicks, signInData,
       recPos, pdfs, disk, flushes >>

\* ------------------------------------------------------------------ helpers

\* A variant of fileName that numbers the file by the PDFs saved so far.
fileNameBySavedCount(position, url) ==
    Decimal(Len(pdfs) + 1) \o "_" \o Substring0(ReplaceNonAlnum(url), MaxNameLen)
        \o ".pdf"

\* A variant of fileName without the position prefix.
fileNameNoIndex(position, url) ==
    Substring0(ReplaceNonAlnum(url), MaxNameLen) \o ".pdf"

\* `${i + 1}_${url.replace(/[^a-zA-Z0-9]/g, '_').substring(0, 100)}.pdf`
fileName(position, url) ==
    Decimal(position + 1) \o "_" \o Substring0(ReplaceNonAlnum(url), MaxNameLen) \o ".pdf"


\* urls.push(row.URL) for every row whose URL is truthy.
RECURSIVE UrlsFrom(_, _)
UrlsFrom(rows, k) ==
    IF k > Len(rows) THEN <<>>
    ELSE (IF rows[k] # "" THEN << rows[k] >> ELSE <<>>) \o UrlsFrom(rows, k + 1)

ReadUrls(rows) == UrlsFrom(rows, 1)

\* A variant of json_to_sheet in which the first record's row is put where the
\* header row belongs.
json_to_sheet_NoHeader(data) ==
    [k \in 1..Len(data) |-> << data[k].URL, data[k].Status, data[k].Notes >>]

\* XLSX.utils.json_to_sheet(signInData): a header row, then one row per record.
json_to_sheet(data) ==
    << << "URL", "Status", "Notes" >> >>
        \o [k \in 1..Len(data) |-> << data[k].URL, data[k].Status, data[k].Notes >>]

SignInRecord(url) == [URL |-> url, Status |-> "Requires Sign-in", Notes |-> ""]

ErrorRecord(url, message) == [URL |-> url, Status |-> "Error", Notes |-> message]

\* The position after the loop's i++ and test.
LoopTest(k) == IF k < Len(urls) THEN "goto" ELSE "ledger"

\* The end of an iteration: i++ and the loop test.
NextUrl ==
    /\ i' = i + 1
    /\ pc' = LoopTest(i + 1)
    /\ sel' = 0
    /\ clicks' = <<>>

\* A variant of the per-URL catch block that tries the same URL again.
CatchAndRetry(message) ==
    /\ pc' = "goto"
    /\ sel' = 0
    /\ clicks' = <<>>
    /\ UNCHANGED << i, signInData, recPos >>

\* The per-URL catch block: push an Error record, then go on with the loop.
CatchUrlError(message) ==
    /\ signInData' = Append(signInData, ErrorRecord(urls[i + 1], message))
    /\ recPos' = Append(recPos, i)
    /\ NextUrl

\* The top-level catch block: process.exit(1).
Fatal ==
    /\ pc' = "exited"
    /\ exitCode' = 1

\* --------------------------------------------------------------------- init

Init ==
    /\ pc = "start"
    /\ csv \in ({ [state |-> "missing", rows |-> <<>>],
                  [state |-> "unreadable", rows |-> <<>>] }
                \cup { [state |-> "ok", rows |-> r] : r \in RowLists })
    /\ browser = "none"
    /\ exitCode = -1
    /\ urls = <<>>
    /\ i = 0
    /\ dom = <<>>
    /\ sel = 0
    /\ clicks = <<>>
    /\ signInData = <<>>
    /\ recPos = <<>>
    /\ pdfs = <<>>
    /\ disk = <<>>
    /\ flushes = 0

\* ------------------------------------------------------------------ actions

\* The CSV path prompt and the fs.existsSync check.
CheckCsv ==
    /\ pc = "start"
    /\ \/ /\ csv.state = "missing"
          /\ Fatal
       \/ /\ csv.state # "missing"
          /\ pc' = "outputDir"
          /\ UNCHANGED exitCode
    /\ UNCHANGED << csv, browser, urls, i, dom, sel, clicks, signInData,
                    recPos, pdfs, disk, flushes >>

\* The output directory prompt and fs.mkdirSync, which may throw.
MakeOutputDir ==
    /\ pc = "outputDir"
    /\ \/ /\ pc' = "launch"
          /\ UNCHANGED exitCode
       \/ Fatal
    /\ UNCHANGED << csv, browser, urls, i, dom, sel, clicks, signInData,
                    recPos, pdfs, disk, flushes >>

\* puppeteer.launch
Launch ==
    /\ pc = "launch"
    /\ \/ /\ browser' = "open"
          /\ pc' = "newPage"
          /\ UNCHANGED exitCode
       \/ /\ Fatal
          /\ UNCHANGED browser
    /\ UNCHANGED << csv, urls, i, dom, sel, clicks, signInData, recPos, pdfs,
                    disk, flushes >>

\* browser.newPage, page.setViewport and the dialog handler.
NewPage ==
    /\ pc = "newPage"
    /\ \/ /\ pc' = "readCsv"
          /\ UNCHANGED exitCode
       \/ Fatal
    /\ UNCHANGED << csv, browser, urls, i, dom, sel, clicks, signInData,
                    recPos, pdfs, disk, flushes >>

\* A variant of the CSV read in which an 'error' event ends the stream like
\* 'end': the run goes on with no URL.
ReadCsvIgnoringError ==
    /\ pc = "readCsv"
    /\ urls' = ReadUrls(csv.rows)
    /\ pc' = IF 0 < Len(ReadUrls(csv.rows)) THEN "goto" ELSE "ledger"
    /\ UNCHANGED << csv, browser, exitCode, i, dom, sel, clicks, signInData,
                    recPos, pdfs, disk, flushes >>

\* The read stream of the CSV file: an 'error' event rejects, 'end' resolves.
ReadCsv ==
    /\ pc = "readCsv"
    /\ \/ /\ csv.state = "unreadable"
          /\ Fatal
          /\ UNCHANGED urls
       \/ /\ csv.state = "ok"
          /\ urls' = ReadUrls(csv.rows)
          /\ pc' = IF 0 < Len(ReadUrls(csv.rows)) THEN "goto" ELSE "ledger"
          /\ UNCHANGED exitCode
    /\ UNCHANGED << csv, browser, i, dom, sel, clicks, signInData, recPos,
                    pdfs, disk, flushes >>

\* A variant of the navigation step that records a failed navigation and
\* then goes on with the page as it is.
GotoFailThenContinue ==
    /\ pc = "goto"
    /\ \/ /\ dom' = Site(urls[i + 1])
          /\ UNCHANGED << signInData, recPos >>
       \/ /\ \E message \in NavErrors :
                signInData' = Append(signInData, ErrorRecord(urls[i + 1], message))
          /\ recPos' = Append(recPos, i)
          /\ UNCHANGED dom
    /\ pc' = "settle"
    /\ UNCHANGED << csv, browser, exitCode, urls, i, sel, clicks, pdfs, disk,
                    flushes >>

\* page.goto(url, ...)
Goto ==
    /\ pc = "goto"
    /\ \/ /\ dom' = Site(urls[i + 1])
          /\ pc' = "settle"
          /\ UNCHANGED << i, sel, clicks, signInData, recPos >>
       \/ /\ \E message \in NavErrors : CatchUrlError(message)
          /\ UNCHANGED dom
    /\ UNCHANGED << csv, browser, exitCode, urls, pdfs, disk, flushes >>

\* wait(page, 2000)
Settle ==
    /\ pc = "settle"
    /\ \/ /\ pc' = "consent"
          /\ sel' = 1
          /\ UNCHANGED << i, clicks, signInData, recPos >>
       \/ CatchUrlError(WaitError)
    /\ UNCHANGED << csv, browser, exitCode, urls, dom, pdfs, disk, flushes >>

\* The end of one pass through the body of the cookie-selector loop that did
\* not break: the next selector, or the sign-in check after the last one.
NextSelector ==
    IF sel < Len(cookieSelectors)
    THEN /\ sel' = sel + 1
         /\ pc' = "consent"
    ELSE /\ sel' = 0
         /\ pc' = "classify"

\* A variant of the selector loop's body without its inner try/catch: what
\* a strategy throws reaches the per-URL catch block.
ConsentStepEscalating ==
    /\ pc = "consent"
    /\ \/ CatchUrlError("Failed to execute 'querySelector' on 'Document'")
       \/ /\ NextSelector
          /\ UNCHANGED << i, clicks, signInData, recPos >>
    /\ UNCHANGED << csv, browser, exitCode, urls, dom, pdfs, disk, flushes >>

\* One pass through the body of `for (const selector of cookieSelectors)`.
ConsentStep ==
    /\ pc = "consent"
    /\ \E selector \in { cookieSelectors[sel] } :
       \E button \in { ButtonFor(dom, selector) } :
       \* page.$ or page.evaluateHandle throws: caught, next selector
       \/ /\ NextSelector
          /\ UNCHANGED clicks
       \* `button` is falsy: next selector
       \/ /\ ~QueryThrows(selector)
          /\ ~button.present
          /\ NextSelector
          /\ UNCHANGED clicks
       \* `button` is a handle of no element: button.click is not a function
       \/ /\ ~QueryThrows(selector)
          /\ button.present
          /\ button.elem = 0
          /\ NextSelector
          /\ UNCHANGED clicks
       \* button.click() throws: caught, next selector
       \/ /\ ~QueryThrows(selector)
          /\ button.present
          /\ button.elem # 0
          /\ NextSelector
          /\ UNCHANGED clicks
       \* button.click() and wait(page, 1000) resolve: break
       \/ /\ ~QueryThrows(selector)
          /\ button.present
          /\ button.elem # 0
          /\ clicks' = Append(clicks, [sel |-> sel, elem |-> button.elem])
          /\ sel' = 0
          /\ pc' = "classify"
       \* button.click() resolves, wait(page, 1000) throws: caught, next selector
       \/ /\ ~QueryThrows(selector)
          /\ button.present
          /\ button.elem # 0
          /\ clicks' = Append(clicks, [sel |-> sel, elem |-> button.elem])
          /\ NextSelector
    /\ UNCHANGED << csv, browser, exitCode, urls, i, dom, signInData, recPos,
                    pdfs, disk, flushes >>

\* page.content(), page.evaluate and the requiresSignIn test.
Classify ==
    /\ pc = "classify"
    /\ \/ CatchUrlError(ContentError)
       \/ \E pageContent \in { PageContent(dom) }, pageText \in { PageText(dom) } :
             \/ /\ requiresSignIn(pageText, pageContent)
                /\ signInData' = Append(signInData, SignInRecord(urls[i + 1]))
                /\ recPos' = Append(recPos, i)
                /\ NextUrl
             \/ /\ ~requiresSignIn(pageText, pageContent)
                /\ pc' = "pdf"
                /\ UNCHANGED << i, sel, clicks, signInData, recPos >>
    /\ UNCHANGED << csv, browser, exitCode, urls, dom, pdfs, disk, flushes >>

\* page.pdf({ path: filePath, ... })
RenderPdf ==
    /\ pc = "pdf"
    /\ \E name \in { fileName(i, urls[i + 1]) } :
       \* the file is written and the call resolves
       \/ /\ pdfs' = Append(pdfs, [pos |-> i, name |-> name, done |-> TRUE])
          /\ pc' = "throttle"
          /\ UNCHANGED << i, sel, clicks, signInData, recPos >>
       \* printing fails before anything is written
       \/ /\ CatchUrlError(RenderError)
          /\ UNCHANGED pdfs
       \* writing the file fails
       \/ /\ pdfs' = Append(pdfs, [pos |-> i, name |-> name, done |-> FALSE])
          /\ CatchUrlError(WriteError)
    /\ UNCHANGED << csv, browser, exitCode, urls, dom, disk, flushes >>

\* wait(page, 1000) after the PDF was saved
Throttle ==
    /\ pc = "throttle"
    /\ \/ /\ NextUrl
          /\ UNCHANGED << signInData, recPos >>
       \/ CatchUrlError(WaitError)
    /\ UNCHANGED << csv, browser, exitCode, urls, dom, pdfs, disk, flushes >>

\* A variant of the ledger step without the signInData.length test.
SaveLedgerAlways ==
    /\ pc = "ledger"
    /\ \/ /\ disk' = json_to_sheet(signInData)
          /\ flushes' = flushes + 1
          /\ pc' = "close"
          /\ UNCHANGED exitCode
       \/ /\ Fatal
          /\ UNCHANGED << disk, flushes >>
    /\ UNCHANGED << csv, browser, urls, i, dom, sel, clicks, signInData,
                    recPos, pdfs >>

\* `if (signInData.length > 0) { ... XLSX.writeFile(...) }`
SaveLedger ==
    /\ pc = "ledger"
    /\ \/ /\ Len(signInData) = 0
          /\ pc' = "close"
          /\ UNCHANGED << exitCode, disk, flushes >>
       \/ /\ Len(signInData) > 0
          /\ disk' = json_to_sheet(signInData)
          /\ flushes' = flushes + 1
          /\ pc' = "close"
          /\ UNCHANGED exitCode
       \/ /\ Len(signInData) > 0
          /\ Fatal
          /\ UNCHANGED << disk, flushes >>
    /\ UNCHANGED << csv, browser, urls, i, dom, sel, clicks, signInData,
                    recPos, pdfs >>

\* browser.close() and the end of main.
CloseBrowser ==
    /\ pc = "close"
    /\ \/ /\ browser' = "closed"
          /\ pc' = "exited"
          /\ exitCode' = 0
       \/ /\ Fatal
          /\ UNCHANGED browser
    /\ UNCHANGED << csv, urls, i, dom, sel, clicks, signInData, recPos, pdfs,
                    disk, flushes >>

Next ==
    \/ CheckCsv
    \/ MakeOutputDir
    \/ Launch
    \/ NewPage
    \/ ReadCsv
    \/ Goto
    \/ Settle
    \/ ConsentStep
    \/ Classify
    \/ RenderPdf
    \/ Throttle
    \/ SaveLedger
    \/ CloseBrowser

Spec == Init /\ [][Next]_vars

\* Every awaited call resolves or rejects: the run takes its next step.
FairSpec == Spec /\ WF_vars(Next)

\* ------------------------------------------- the render step, any position

RECURSIVE Repeat(_, _)
Repeat(s, n) ==
    IF n = 0 THEN ""
    ELSE IF n = 1 THEN s
    ELSE Repeat(s, n \div 2) \o Repeat(s, n - (n \div 2))

\* URLs the file name is computed for: short ones, and ones of 99, 100, 101 and
\* more characters.
NameUrls ==
    { "https://a.b/c?d=1",
      "https://a-b/c?d_1",
      "a",
      "A-z_0.9",
      "https://long.example/" \o Repeat("x", 78),
      "https://long.example/" \o Repeat("x", 79),
      "https://long.example/" \o Repeat("x", 79) \o "?",
      "https://long.example/" \o Repeat("x", 70) \o "/a?b=1&c=2#" \o Repeat("y", 20),
      "https://long.example/" \o Repeat("x", 70) \o "/a?b=1&c=2#" \o Repeat("z", 20) }

\* The run at the render step of input position idx: navigation failed for
\* every URL before it, and the page at this position was not gated.
RenderInit ==
    \E idx \in 0..MaxIndex, url \in NameUrls, message \in NavErrors :
        /\ pc = "pdf"
        /\ csv = [state |-> "ok", rows |-> [k \in 1..(idx + 1) |-> url]]
        /\ browser = "open"
        /\ exitCode = -1
        /\ urls = [k \in 1..(idx + 1) |-> url]
        /\ i = idx
        /\ dom = Site(url)
        /\ sel = 0
        /\ clicks = <<>>
        /\ signInData = [k \in 1..idx |-> ErrorRecord(url, message)]
        /\ recPos = [k \in 1..idx |-> k - 1]
        /\ pdfs = <<>>
        /\ disk = <<>>
        /\ flushes = 0

RenderNext ==
    \/ RenderPdf
    \/ Throttle
    \/ SaveLedger
    \/ CloseBrowser

RenderSpec == RenderInit /\ [][RenderNext]_vars

\* ------------------------------- the render step, after an earlier saved PDF

\* The input positions below idx other than q, in order.
OtherPositions(idx, q) == [k \in 1..(idx - 1) |-> IF k <= q THEN k - 1 ELSE k]

\* The run at the render step of input position idx: the PDF of the earlier
\* position q was saved, navigation failed for every other URL before idx,
\* and the page at position idx was not gated.
PairInit ==
    \E idx \in 1..MaxIndex, u \in NameUrls, v \in NameUrls :
    \E q \in 0..(idx - 1) :
    \E list \in { [k \in 1..(idx + 1) |-> IF k = q + 1 THEN u ELSE v] } :
        /\ pc = "pdf"
        /\ csv = [state |-> "ok", rows |-> list]
        /\ browser = "open"
        /\ exitCode = -1
        /\ urls = list
        /\ i = idx
        /\ dom = Site(v)
        /\ sel = 0
        /\ clicks = <<>>
        /\ signInData =
              [k \in 1..(idx - 1) |->
                  ErrorRecord(v, "Navigation timeout of 45000 ms exceeded")]
        /\ recPos = OtherPositions(idx, q)
        /\ pdfs = << [pos |-> q, name |-> fileName(q, u), done |-> TRUE] >>
        /\ disk = <<>>
        /\ flushes = 0

PairSpec == PairInit /\ [][RenderNext]_vars

\* ------------------------------------------------------------------- claims

\* Number of records of signInData with the given status.
CountStatus(status) ==
    Cardinality({ k \in 1..Len(signInData) : signInData[k].Status = status })

\* Number of PDFs page.pdf saved.
SavedCount == Cardinality({ k \in 1..Len(pdfs) : pdfs[k].done })

\* Whether the PDF of input position p was saved.
Saved(p) == \E k \in 1..Len(pdfs) : pdfs[k].pos = p /\ pdfs[k].done

\* Number of files page.pdf wrote (whole or in part) for input position p.
Writes(p) == Cardinality({ k \in 1..Len(pdfs) : pdfs[k].pos = p })

\* Number of records pushed for input position p.
Records(p) == Cardinality({ k \in 1..Len(recPos) : recPos[k] = p })

\* The run is inside the body of the URL loop.
InIteration == pc \in { "goto", "settle", "consent", "classify", "pdf", "throttle" }

\* The run is at no point inside the body of the URL loop.
BetweenIterations == pc \in { "goto", "ledger", "close", "exited" }

IsPrefix(s, t) == Len(s) <= Len(t) /\ SubSeq(t, 1, Len(s)) = s

ErrorMessages ==
    NavErrors \cup { WaitError, ContentError, RenderError, WriteError }

\* C1: after every completed iteration k, saved PDFs + 'Requires Sign-in'
\* records + 'Error' records = k, and = n once the loop has exhausted the
\* URL sequence.
C1_OneOutcomePerUrl ==
    /\ BetweenIterations =>
          SavedCount + CountStatus("Requires Sign-in") + CountStatus("Error") = i
    /\ pc \in { "ledger", "close" } => i = Len(urls)

\* C2: no URL has both a PDF write and a ledger record: a URL with a record
\* had zero PDF writes, and a processed URL with no record had exactly one.
C2_NoWriteAndRecord ==
    \A p \in 0..(Len(urls) - 1) :
        /\ Records(p) >= 1 => Writes(p) = 0
        /\ (p < i /\ Records(p) = 0) => Writes(p) = 1

\* C3: no step inside the loop body ends the process, whatever fails in it:
\* each step stays at the same URL or moves on to exactly the next one (to
\* its navigation, or to the end of the loop after the last URL); and from
\* anywhere inside the loop body the run reaches the end of the URL sequence.
C3_FailureIsolation ==
    /\ [][InIteration =>
            /\ exitCode' = -1
            /\ i' \in { i, i + 1 }
            /\ (i' = i) => InIteration'
            /\ (i' = i + 1) =>
                  pc' = (IF i + 1 < Len(urls) THEN "goto" ELSE "ledger")]_vars
    /\ InIteration ~> (pc = "ledger" /\ i = Len(urls))

\* C3 witness: navigation of URL #1 failed and the PDF of URL #2 was saved.
C3_Witness ==
    /\ pc = "throttle"
    /\ i = 1
    /\ recPos = << 0 >>
    /\ signInData[1].Status = "Error"
    /\ signInData[1].Notes \in NavErrors
    /\ Saved(1)

C5_FinalFlushAlways == (pc = "exited" /\ exitCode = 0) => flushes >= 1

\* C5 amended: once the loop is over, the ledger has been written exactly
\* when there is at least one record; a run with no record completes without
\* any ledger write.
C5_FlushOnlyWhenRecords ==
    (pc = "close" \/ (pc = "exited" /\ exitCode = 0)) =>
        /\ (Len(signInData) > 0) <=> (flushes = 1)
        /\ (Len(signInData) = 0) <=> (flushes = 0 /\ disk = <<>>)

\* C5 witness: a run whose URLs were all saved completes without a write.
C5_Witness ==
    /\ pc = "exited"
    /\ exitCode = 0
    /\ Len(urls) > 0
    /\ SavedCount = Len(urls)
    /\ signInData = <<>>
    /\ flushes = 0

\* C6: the process never exits with the browser session still open.
C6_BrowserClosedOnExit == pc = "exited" => browser # "open"

\* The records are one per input position whose PDF was not saved, in input
\* order, with the two statuses and their notes.
RecordsOk ==
    /\ Len(recPos) = Len(signInData)
    /\ \A j, k \in 1..Len(recPos) : j < k => recPos[j] < recPos[k]
    /\ \A k \in 1..Len(signInData) :
          /\ signInData[k].URL = urls[recPos[k] + 1]
          /\ \/ /\ signInData[k].Status = "Requires Sign-in"
                /\ signInData[k].Notes = ""
             \/ /\ signInData[k].Status = "Error"
                /\ signInData[k].Notes \in ErrorMessages
    /\ \A p \in 0..(i - 1) : Records(p) = (IF Saved(p) THEN 0 ELSE 1)

\* C7: the record sequence only grows at its end, and holds exactly one
\* record per URL whose outcome is not Saved, in input order, with status
\* 'Requires Sign-in' (empty notes) or 'Error' (the failure's message).
C7_RecordsAppendOnlyInOrder ==
    [][IsPrefix(signInData, signInData') /\ RecordsOk']_vars

\* The characters of [a-zA-Z0-9].
AlnumChars ==
    { CharAt("abcdefghijklmnopqrstuvwxyzABCDEFGHIJKLMNOPQRSTUVWXYZ0123456789", k) :
        k \in 1..62 }

\* C8: the file written for input position p is named (p+1), "_", the first
\* 100 characters of the URL with every character outside [a-zA-Z0-9]
\* replaced by "_", ".pdf"; position 4 and https://a.b/c?d=1 give
\* 5_https___a_b_c_d_1.pdf.
C8_FileNameFormat ==
    \A k \in 1..Len(pdfs) :
        LET p == pdfs[k].pos
            name == pdfs[k].name
            url == urls[p + 1]
            prefix == ToString(p + 1) \o "_"
            n == IF Len(url) < 100 THEN Len(url) ELSE 100
        IN /\ Len(name) = Len(prefix) + n + 4
           /\ SubSeq(name, 1, Len(prefix)) = prefix
           /\ SubSeq(name, Len(name) - 3, Len(name)) = ".pdf"
           /\ \A j \in 1..n :
                  CharAt(name, Len(prefix) + j) =
                      (IF CharAt(url, j) \in AlnumChars THEN CharAt(url, j) ELSE "_")
           /\ (p = 4 /\ url = "https://a.b/c?d=1") => name = "5_https___a_b_c_d_1.pdf"

\* C8 witness: the PDF of https://a.b/c?d=1 at position 4 was written.
C8_Witness ==
    \E k \in 1..Len(pdfs) :
        /\ pdfs[k].pos = 4
        /\ urls[5] = "https://a.b/c?d=1"
        /\ pdfs[k].name = "5_https___a_b_c_d_1.pdf"
        /\ SavedCount = 1

\* Whether the document holds a form element.
HasFormElement(page) == \E k \in 1..Len(page) : page[k].tag = "form"

\* Whether the lower-cased text of the document holds a sign-in phrase.
HasSignInPhrase(page) ==
    \E phrase \in { "sign in", "login", "log in", "subscribe", "subscription",
                    "register", "account required", "please log in",
                    "member access", "sign up", "create account",
                    "premium content" } :
        Includes(PageText(page), phrase)

\* C9: a page is classified gated if and only if its text holds a sign-in
\* phrase and its markup holds a form element.
C9_GatedIffPhraseAndForm ==
    [][/\ (/\ pc = "classify"
           /\ Len(signInData') = Len(signInData) + 1
           /\ signInData'[Len(signInData')].Status = "Requires Sign-in")
          => (HasSignInPhrase(dom) /\ HasFormElement(dom))
       /\ (pc = "classify" /\ pc' = "pdf")
          => ~(HasSignInPhrase(dom) /\ HasFormElement(dom))]_vars

\* Whether the document holds consent markup: an element matching a consent
\* identifier, class, attribute or button-text selector, or a button, a, span
\* or div whose text holds a consent text.
HasConsentMarkup(page) ==
    \/ \E k \in 1..Len(page), s \in 2..Len(cookieSelectors) :
          \/ Matches(page[k], cookieSelectors[s])
          \/ /\ cookieSelectors[s].kind = "hastext"
             /\ page[k].tag = "button"
             /\ Includes(page[k].text, cookieSelectors[s].val)
    \/ FindByText(page) # 0

\* C10: on a page with no consent markup the consent pass clicks nothing.
C10_NoConsentMarkupNoClick ==
    (pc \in { "consent", "classify", "pdf", "throttle" } /\ ~HasConsentMarkup(dom))
        => clicks = <<>>

\* Whether element el matches one of the identifier, class or attribute
\* selectors of cookieSelectors.
MatchesSpecific(el) ==
    \E s \in 1..Len(cookieSelectors) :
        /\ cookieSelectors[s].kind \in { "id", "class", "aria", "testid" }
        /\ Matches(el, cookieSelectors[s])

\* C11: the generic strategy comes after the specific ones: on a page that
\* holds an element matching a consent identifier, class or attribute, every
\* element the consent pass clicks is such an element.
C11_SpecificBeforeGeneric ==
    (pc \in { "consent", "classify", "pdf", "throttle" }
        /\ \E e \in 1..Len(dom) : MatchesSpecific(dom[e]))
        => \A k \in 1..Len(clicks) : MatchesSpecific(dom[clicks[k].elem])

\* The run has not entered the URL loop.
PreLoop == pc \in { "start", "outputDir", "launch", "newPage", "readCsv" }

\* C12: the process exits 0 only from the end of a run whose loop exhausted
\* the URLs of a readable source file, whatever records the URLs left; it
\* exits non-zero only on a failure outside the loop body, and when that
\* failure is before the loop no URL was processed; a run whose source file
\* is missing or unreadable never exits 0.
C12_ExitStatus ==
    [][/\ exitCode' \in { -1, 0, 1 }
       /\ (pc' = "exited") <=> (exitCode' # -1)
       /\ (exitCode = -1 /\ exitCode' = 0) =>
             /\ pc = "close"
             /\ i = Len(urls)
             /\ csv.state = "ok"
             /\ urls = ReadUrls(csv.rows)
             /\ browser' = "closed"
       /\ (exitCode = -1 /\ exitCode' = 1) =>
             /\ ~InIteration
             /\ PreLoop =>
                   /\ i = 0
                   /\ dom = <<>>
                   /\ signInData = <<>>
                   /\ pdfs = <<>>
                   /\ flushes = 0
       /\ (csv.state # "ok") => exitCode' # 0
       /\ (exitCode # -1) => UNCHANGED vars]_vars

\* C12 witness: a run that left one 'Error' and one 'Requires Sign-in' record
\* has exited 0.
C12_Witness ==
    /\ pc = "exited"
    /\ exitCode = 0
    /\ CountStatus("Error") = 1
    /\ CountStatus("Requires Sign-in") = 1

\* The step is the fatal end of the run on a source-file error: the file is
\* missing at the existence check, or its read stream emits 'error'.
SourceFileAbort ==
    /\ exitCode' = 1
    /\ \/ pc = "start" /\ csv.state = "missing"
       \/ pc = "readCsv" /\ csv.state = "unreadable"

\* C13: a run ended by a source-file error, the file missing or unreadable,
\* has not opened a browser session.
C13_InputErrorBeforeBrowser ==
    [][SourceFileAbort => (browser = "none" /\ browser' = "none")]_vars

\* C14: every iteration ends with the 1-second delay: the step that moves
\* the loop to the next URL is the delay that follows the saved PDF, the
\* gated classification or the error.
C14_DelayAfterEveryIteration ==
    [][(InIteration /\ i' = i + 1) => pc = "throttle"]_vars

\* C15: at most one consent click succeeds per URL, also when the settle
\* wait that follows the click fails.
C15_AtMostOneClick == Len(clicks) <= 1

\* C16: whatever a consent strategy does (its query throws, its click fails,
\* the wait after its click fails), the step pushes no record, ends neither
\* the iteration nor the process, and leads to the next strategy or, after
\* the last one or a completed click, to the sign-in classification of the
\* same page.
C16_ConsentFailuresSwallowed ==
    [][pc = "consent" =>
          /\ signInData' = signInData
          /\ recPos' = recPos
          /\ pdfs' = pdfs
          /\ i' = i
          /\ dom' = dom
          /\ exitCode' = -1
          /\ \/ pc' = "consent" /\ sel' = sel + 1 /\ sel' <= Len(cookieSelectors)
             \/ pc' = "classify" /\ sel' = 0]_vars

\* C16 witness: on the page of https://shop.example every strategy failed
\* (no click went through), and the run is at the classification with no
\* record pushed.
C16_Witness ==
    /\ pc = "classify"
    /\ i = 0
    /\ urls[1] = "https://shop.example"
    /\ dom = Site("https://shop.example")
    /\ clicks = <<>>
    /\ signInData = <<>>

\* The positions of the records that carry a navigation failure's message.
NavFailed == { recPos[k] : k \in { j \in 1..Len(signInData) :
                                      /\ signInData[j].Status = "Error"
                                      /\ signInData[j].Notes \in NavErrors } }

\* C17: a navigation step either loads the URL's page and pushes nothing, or
\* fails: it then pushes one 'Error' record with the failure's message and
\* ends the iteration with the page left as it was, no settle wait, consent
\* step, classification or render in between; and a URL whose navigation
\* failed has that one record and no PDF write.
C17_NavigationFailureEndsUrl ==
    /\ [][pc = "goto" =>
            \/ /\ pc' = "settle"
               /\ i' = i
               /\ dom' = Site(urls[i + 1])
               /\ signInData' = signInData
            \/ /\ i' = i + 1
               /\ pc' = LoopTest(i + 1)
               /\ dom' = dom
               /\ clicks' = <<>>
               /\ pdfs' = pdfs
               /\ \E message \in NavErrors :
                     signInData' =
                         Append(signInData, ErrorRecord(urls[i + 1], message))
               /\ recPos' = Append(recPos, i)]_vars
    /\ [](\A p \in NavFailed : p < i /\ Records(p) = 1 /\ Writes(p) = 0)

\* C17 witness: the first URL's page was loaded and saved, the second URL's
\* navigation failed: the page still holds the first URL's document.
C17_Witness ==
    /\ pc = "ledger"
    /\ i = 2
    /\ urls[1] # urls[2]
    /\ dom = Site(urls[1])
    /\ dom # <<>>
    /\ Saved(0)
    /\ recPos = << 1 >>
    /\ signInData[1] \in { ErrorRecord(urls[2], message) : message \in NavErrors }

\* The part of a file name that comes from the URL.
NamePart(url) == Substring0(ReplaceNonAlnum(url), 100)

\* C18: the files written for two different input positions have different
\* names.
C18_DistinctFileNames ==
    \A j, k \in 1..Len(pdfs) :
        pdfs[j].pos # pdfs[k].pos => pdfs[j].name # pdfs[k].name

\* C18 witness: two PDFs were saved for different URLs whose names agree in
\* everything but the position prefix.
C18_Witness ==
    /\ Len(pdfs) = 2
    /\ pdfs[1].done /\ pdfs[2].done
    /\ pdfs[1].pos # pdfs[2].pos
    /\ urls[pdfs[1].pos + 1] # urls[pdfs[2].pos + 1]
    /\ NamePart(urls[pdfs[1].pos + 1]) = NamePart(urls[pdfs[2].pos + 1])

\* C19: the element a strategy gets to click is always the one its direct
\* query found: the text scan runs only for the generic selector on a page
\* where that selector matches nothing, and there the scan finds nothing;
\* so every click of the consent pass is on the direct match of its selector.
C19_ClicksFromDirectMatch ==
    pc \in { "consent", "classify", "pdf", "throttle" } =>
        /\ \A s \in 1..Len(cookieSelectors) :
              ~QueryThrows(cookieSelectors[s]) =>
                  ButtonFor(dom, cookieSelectors[s]).elem =
                      QuerySelector(dom, cookieSelectors[s])
        /\ QuerySelector(dom, cookieSelectors[1]) = 0 => FindByText(dom) = 0
        /\ \A k \in 1..Len(clicks) :
              /\ clicks[k].elem # 0
              /\ ~QueryThrows(cookieSelectors[clicks[k].sel])
              /\ clicks[k].elem =
                    QuerySelector(dom, cookieSelectors[clicks[k].sel])

\* C19 witness: on a page with no button, a, span or div, whose text holds
\* consent words, the text scan ran and clicked nothing; the one click came
\* later, from the direct match of '#accept-cookies'.
C19_Witness ==
    /\ pc = "classify"
    /\ dom = Site("https://docs.example/ok")
    /\ QuerySelector(dom, cookieSelectors[1]) = 0
    /\ HasConsentText(dom[1])
    /\ clicks = << [sel |-> 3, elem |-> 2] >>

====
